---- MODULE Spec2Model ----
(***************************************************************************)
(* Audience resolution and engagement tracking of the communication app:   *)
(* broadcasts (acknowledge / mark_viewed), events (rsvp), groups           *)
(* (join / leave), the DRF permission classes and the m2m_changed signal   *)
(* receivers.  One broadcast and one event are followed; every relation    *)
(* of the source is keyed by the entity, so operations on different        *)
(* entities do not interact.                                               *)
(***************************************************************************)
EXTENDS Integers, Sequences, FiniteSets, TLC

\* ------------------------------------------------------------------ bounds
\* The clock runs over 0 .. MaxNow.
MaxNow == 2
\* A request that appends log rows is only started while the log is shorter.
MaxLogs == 4

\* ------------------------------------------------------------ the universe
\* auth users; "admin" is the one with is_staff = True (tests.py setUp)
Users == {"admin", "u1", "u2"}
Groups == {"g1", "g2"}
\* the two request slots that may be in flight at once
Procs == {"r1", "r2"}

None == "None"
RSVP_STATUS == {"yes", "no", "maybe"}
AUDIENCE_CHOICES == {"all", "groups", "users"}
GROUP_TYPES == {"public", "private"}
SAFE_METHODS == {"GET", "HEAD", "OPTIONS"}

is_staff(u) == u = "admin"

VARIABLES
    now,                \* timezone.now()
    stored,             \* which of the two followed rows are in their tables
    \* ---- Broadcast row and its many-to-many relations
    bcast,              \* [start_date, end_date, audience_type, is_published, is_active, created_by]
    target_groups,
    target_users,
    acknowledged_by,
    viewed_by,
    view_logs,          \* BroadcastView rows, in insertion order
    \* ---- Event row and its many-to-many relations
    event,              \* [datetime, is_public, is_active, created_by]
    visible_to_groups,
    visible_to_users,
    rsvp_yes,
    rsvp_no,
    rsvp_maybe,
    rsvp_logs,          \* EventRSVPLog rows, in insertion order
    \* ---- Group rows
    members,            \* [Groups -> SUBSET Users]
    owners,             \* [Groups -> SUBSET Users]
    group_type,         \* [Groups -> GROUP_TYPES]
    \* ---- requests
    pc,                 \* [Procs -> position of the request in its handler]
    req,                \* [Procs -> the request's user, input and locals]
    resp                \* the last response sent: [op, user, code]

bvars == <<bcast, target_groups, target_users, acknowledged_by, viewed_by, view_logs>>
evars == <<event, visible_to_groups, visible_to_users, rsvp_yes, rsvp_no, rsvp_maybe, rsvp_logs>>
gvars == <<members, owners, group_type>>
pvars == <<pc, req>>
vars == <<now, stored, bvars, evars, gvars, pvars, resp>>

NoReq == [user |-> None, op |-> None, arg |-> None, local |-> None]
NoResp == [op |-> None, user |-> None, code |-> 0, body |-> {}]
\* a response: status code and, for list and retrieve, the entities in its body
ResponseWith(op, u, code, body) == [op |-> op, user |-> u, code |-> code, body |-> body]
Response(op, u, code) == ResponseWith(op, u, code, {})

\* DRF GenericAPIView.get_object: 404 when the row is not in get_queryset(),
\* 403 when check_object_permissions refuses, else the handler runs.
StatusOf(in_queryset, permitted) ==
    IF ~in_queryset THEN 404 ELSE IF ~permitted THEN 403 ELSE 200

\* --------------------------------------------------------------- Event
is_upcoming == event.datetime > now

get_user_rsvp_status(yes, no, maybe, u) ==
    IF u \in yes THEN "yes"
    ELSE IF u \in no THEN "no"
    ELSE IF u \in maybe THEN "maybe"
    ELSE None

InVisibleGroup(u) == \E g \in visible_to_groups : u \in members[g]

\* a check that forgets the creator
user_can_view_NoCreator(u) ==
    \/ event.is_public
    \/ u \in visible_to_users
    \/ InVisibleGroup(u)

user_can_view(u) ==
    \/ event.is_public
    \/ event.created_by = u
    \/ u \in visible_to_users
    \/ InVisibleGroup(u)

EventQueryset(u) ==
    /\ "event" \in stored
    /\ event.is_active
    /\ \/ is_staff(u)
       \/ event.is_public
       \/ u \in visible_to_users
       \/ InVisibleGroup(u)
       \/ event.created_by = u

IsEventOwnerOrAdmin(method, u) ==
    IF method \in SAFE_METHODS THEN user_can_view(u)
    ELSE is_staff(u) \/ event.created_by = u

\* a permission that forgets the date
CanRSVPToEvent_NoUpcoming(u) == user_can_view(u)

CanRSVPToEvent(u) == user_can_view(u) /\ is_upcoming

\* RSVPSerializer: status must be one of the three choices
RSVPSerializerValid(s) == s \in RSVP_STATUS

\* an add that is lost
M2MAdd_Lost(set, u) == set

\* related manager .remove(user) / .add(user)
M2MRemove(set, u) == set \ {u}
M2MAdd(set, u) == set \cup {u}

\* m2m_changed receivers of Event.rsvp_*.through: on post_add one row
\* (old_status None) per pk that was actually inserted
RsvpSignalRows(set, u, status) ==
    IF u \in set THEN <<>>
    ELSE << [user |-> u, old_status |-> None, new_status |-> status, changed_at |-> now] >>

\* the row EventViewSet.rsvp creates itself
RsvpViewRow(u, old, new) ==
    [user |-> u, old_status |-> old, new_status |-> new, changed_at |-> now]

\* a handler that adds to the new set without the three removes
RsvpSetAfter_NoRemove(set, which, u, new) ==
    IF new = which THEN M2MAdd(set, u) ELSE set

\* the set named `which` after rsvp's three removes and one add
RsvpSetAfter(set, which, u, new) ==
    IF new = which THEN M2MAdd(M2MRemove(set, u), u) ELSE M2MRemove(set, u)

RsvpCode(u, s) ==
    LET c == StatusOf(EventQueryset(u), CanRSVPToEvent(u))
    IN IF c # 200 THEN c ELSE IF RSVPSerializerValid(s) THEN 200 ELSE 400

\* EventViewSet.rsvp, run to completion
rsvp(u, s) ==
    /\ Len(rsvp_logs) < MaxLogs
    /\ resp' = Response("rsvp", u, RsvpCode(u, s))
    /\ IF RsvpCode(u, s) = 200
       THEN LET old == get_user_rsvp_status(rsvp_yes, rsvp_no, rsvp_maybe, u)
                cleared == M2MRemove(IF s = "yes" THEN rsvp_yes
                                     ELSE IF s = "no" THEN rsvp_no ELSE rsvp_maybe, u)
            IN /\ rsvp_yes' = RsvpSetAfter(rsvp_yes, "yes", u, s)
               /\ rsvp_no' = RsvpSetAfter(rsvp_no, "no", u, s)
               /\ rsvp_maybe' = RsvpSetAfter(rsvp_maybe, "maybe", u, s)
               /\ rsvp_logs' = rsvp_logs \o RsvpSignalRows(cleared, u, s)
                                         \o << RsvpViewRow(u, old, s) >>
       ELSE UNCHANGED <<rsvp_yes, rsvp_no, rsvp_maybe, rsvp_logs>>
    /\ UNCHANGED <<now, stored, bvars, event, visible_to_groups, visible_to_users, gvars, pvars>>

\* ------------------------------------------------------------- Broadcast
is_visible ==
    /\ bcast.start_date <= now
    /\ now <= bcast.end_date
    /\ bcast.is_published
    /\ bcast.is_active

\* BroadcastFilter.filter_is_active: whether ?is_active=<value> keeps the row
filter_is_active(value) ==
    LET current == /\ bcast.start_date <= now
                   /\ bcast.end_date >= now
                   /\ bcast.is_published
                   /\ bcast.is_active
    IN IF value THEN current ELSE ~current

InTargetGroup(u) == \E g \in target_groups : u \in members[g]

BroadcastQueryset(u) ==
    /\ "broadcast" \in stored
    /\ bcast.is_active
    /\ \/ is_staff(u)
       \/ bcast.audience_type = "all"
       \/ bcast.audience_type = "groups" /\ InTargetGroup(u)
       \/ bcast.audience_type = "users" /\ u \in target_users
       \/ bcast.created_by = u

\* a check that looks a group audience up in target_users
can_view_broadcast_WrongRelation(u) ==
    IF ~is_visible THEN FALSE
    ELSE IF bcast.audience_type = "all" THEN TRUE
    ELSE IF bcast.audience_type = "groups" THEN u \in target_users
    ELSE IF bcast.audience_type = "users" THEN u \in target_users
    ELSE FALSE


can_view_broadcast(u) ==
    IF ~is_visible THEN FALSE
    ELSE IF bcast.audience_type = "all" THEN TRUE
    ELSE IF bcast.audience_type = "groups" THEN InTargetGroup(u)
    ELSE IF bcast.audience_type = "users" THEN u \in target_users
    ELSE FALSE

\* a permission that lets every authenticated user write
IsBroadcastOwnerOrAdmin_AnyWriter(method, u) ==
    IF method \in SAFE_METHODS THEN can_view_broadcast(u) ELSE TRUE

IsBroadcastOwnerOrAdmin(method, u) ==
    IF method \in SAFE_METHODS THEN can_view_broadcast(u)
    ELSE is_staff(u) \/ bcast.created_by = u

\* a permission that checks the audience only
CanAcknowledgeBroadcast_NoLiveness(u) ==
    IF bcast.audience_type = "all" THEN TRUE
    ELSE IF bcast.audience_type = "groups" THEN InTargetGroup(u)
    ELSE IF bcast.audience_type = "users" THEN u \in target_users
    ELSE FALSE

CanAcknowledgeBroadcast(u) ==
    IF ~is_visible THEN FALSE
    ELSE IF bcast.audience_type = "all" THEN TRUE
    ELSE IF bcast.audience_type = "groups" THEN InTargetGroup(u)
    ELSE IF bcast.audience_type = "users" THEN u \in target_users
    ELSE FALSE

\* request bodies of acknowledge: {"acknowledged": true}, {"acknowledged": false}, {}
AckPayloads == {"true", "false", "absent"}

\* BroadcastAcknowledgeSerializer: acknowledged is a required BooleanField
AcknowledgeSerializerValid(data) == data \in {"true", "false"}

\* serializer.validated_data['acknowledged']
Acknowledged(data) == data = "true"

AcknowledgeCode(u, data) ==
    LET c == StatusOf(BroadcastQueryset(u), CanAcknowledgeBroadcast(u))
    IN IF c # 200 THEN c ELSE IF AcknowledgeSerializerValid(data) THEN 200 ELSE 400

\* a handler that ignores acknowledged = false
AcknowledgedAfter_AlwaysAdd(set, u, want) == M2MAdd(set, u)

\* acknowledged_by after the handler's add / remove
AcknowledgedAfter(set, u, want) ==
    IF want THEN M2MAdd(set, u) ELSE M2MRemove(set, u)

\* BroadcastViewSet.acknowledge, run to completion (the m2m_changed receiver
\* broadcast_acknowledged does nothing)
acknowledge(u, data) ==
    /\ resp' = Response("acknowledge", u, AcknowledgeCode(u, data))
    /\ acknowledged_by' = IF AcknowledgeCode(u, data) = 200
                          THEN AcknowledgedAfter(acknowledged_by, u, Acknowledged(data))
                          ELSE acknowledged_by
    /\ UNCHANGED <<now, stored, bcast, target_groups, target_users, viewed_by, view_logs,
                   evars, gvars, pvars>>

\* a BroadcastView row of the followed broadcast
ViewRow(u, ip) == [user |-> u, viewed_at |-> now, ip_address |-> ip]

HasViewRow(rows, u) == \E i \in 1 .. Len(rows) : rows[i].user = u

\* the table without its unique_together constraint
UniqueInsert_NoConstraint(rows, row) == Append(rows, row)

\* INSERT into communication_broadcast_views under unique_together
\* (broadcast, user): a second row of the pair raises IntegrityError
UniqueInsert(rows, row) ==
    IF HasViewRow(rows, row.user) THEN rows ELSE Append(rows, row)

\* BroadcastView.objects.get_or_create(broadcast, user, defaults={ip_address})
get_or_create(rows, u, ip) ==
    IF HasViewRow(rows, u) THEN rows ELSE UniqueInsert(rows, ViewRow(u, ip))

\* a handler that logs every call: no membership check, create for get_or_create
MarkViewedLog_EveryCall(viewed, rows, u, ip) == Append(rows, ViewRow(u, ip))

\* the view log after mark_viewed's body
MarkViewedLog(viewed, rows, u, ip) ==
    IF u \notin viewed THEN get_or_create(rows, u, ip) ELSE rows

MarkViewedCode(u) == StatusOf(BroadcastQueryset(u), IsBroadcastOwnerOrAdmin("POST", u))

\* BroadcastViewSet.mark_viewed, run to completion
mark_viewed(u, ip) ==
    /\ resp' = Response("mark_viewed", u, MarkViewedCode(u))
    /\ IF MarkViewedCode(u) = 200
       THEN /\ viewed_by' = M2MAdd(viewed_by, u)
            /\ view_logs' = MarkViewedLog(viewed_by, view_logs, u, ip)
       ELSE UNCHANGED <<viewed_by, view_logs>>
    /\ UNCHANGED <<now, stored, bcast, target_groups, target_users, acknowledged_by,
                   evars, gvars, pvars>>

RetrieveBroadcastCode(u) ==
    StatusOf(BroadcastQueryset(u), IsBroadcastOwnerOrAdmin("GET", u))

\* GET /api/broadcasts/{id}/
retrieve_broadcast(u) ==
    /\ LET c == RetrieveBroadcastCode(u)
       IN resp' = ResponseWith("retrieve_broadcast", u, c, IF c = 200 THEN {"broadcast"} ELSE {})
    /\ UNCHANGED <<now, stored, bvars, evars, gvars, pvars>>

\* GET /api/broadcasts/
list_broadcasts(u) ==
    /\ resp' = ResponseWith("list_broadcasts", u, 200,
                            IF BroadcastQueryset(u) THEN {"broadcast"} ELSE {})
    /\ UNCHANGED <<now, stored, bvars, evars, gvars, pvars>>

RetrieveEventCode(u) == StatusOf(EventQueryset(u), IsEventOwnerOrAdmin("GET", u))

\* GET /api/events/{id}/
retrieve_event(u) ==
    /\ LET c == RetrieveEventCode(u)
       IN resp' = ResponseWith("retrieve_event", u, c, IF c = 200 THEN {"event"} ELSE {})
    /\ UNCHANGED <<now, stored, bvars, evars, gvars, pvars>>

\* GET /api/events/
list_events(u) ==
    /\ resp' = ResponseWith("list_events", u, 200, IF EventQueryset(u) THEN {"event"} ELSE {})
    /\ UNCHANGED <<now, stored, bvars, evars, gvars, pvars>>

\* ----------------------------------------------------------------- Group
\* every group row followed is active and was created by the admin
group_created_by(g) == "admin"

GroupQueryset(g, u) ==
    \/ is_staff(u)
    \/ group_type[g] = "public"
    \/ u \in members[g]
    \/ u \in owners[g]
    \/ group_created_by(g) = u

IsGroupOwnerOrAdmin(method, g, u) ==
    IF method \in SAFE_METHODS
    THEN group_type[g] = "public" \/ u \in members[g] \/ u \in owners[g] \/ is_staff(u)
    ELSE u \in owners[g] \/ is_staff(u)

JoinCode(g, u) ==
    LET c == StatusOf(GroupQueryset(g, u), IsGroupOwnerOrAdmin("POST", g, u))
    IN IF c # 200 THEN c ELSE IF group_type[g] # "public" THEN 400 ELSE 200

\* GroupViewSet.join
join(g, u) ==
    /\ resp' = Response("join", u, JoinCode(g, u))
    /\ members' = IF JoinCode(g, u) = 200
                  THEN [members EXCEPT ![g] = M2MAdd(members[g], u)]
                  ELSE members
    /\ UNCHANGED <<now, stored, bvars, evars, owners, group_type, pvars>>

LeaveCode(g, u) == StatusOf(GroupQueryset(g, u), IsGroupOwnerOrAdmin("POST", g, u))

\* GroupViewSet.leave
leave(g, u) ==
    /\ resp' = Response("leave", u, LeaveCode(g, u))
    /\ members' = IF LeaveCode(g, u) = 200
                  THEN [members EXCEPT ![g] = M2MRemove(members[g], u)]
                  ELSE members
    /\ UNCHANGED <<now, stored, bvars, evars, owners, group_type, pvars>>

\* the clock advances
Tick ==
    /\ now < MaxNow
    /\ now' = now + 1
    /\ UNCHANGED <<stored, bvars, evars, gvars, pvars, resp>>

\* ------------------------------------------------------- initial states
\* both rows stored, no request in flight, nothing answered yet
InitRequests ==
    /\ stored = {"broadcast", "event"}
    /\ pc = [p \in Procs |-> "idle"]
    /\ req = [p \in Procs |-> NoReq]
    /\ resp = NoResp

\* Group rows as the admin site (GroupAdmin, filter_horizontal members/owners)
\* leaves them: g1 private, g2 public, u1 owning both
GroupsWith(M1, M2) ==
    /\ group_type = [g \in Groups |-> IF g = "g1" THEN "private" ELSE "public"]
    /\ owners = [g \in Groups |-> {"u1"}]
    /\ members \in {[g \in Groups |-> IF g = "g1" THEN m1 ELSE m2] : m1 \in M1, m2 \in M2}

InitGroups == GroupsWith({{}, {"u1"}}, {{}})

\* a freshly created broadcast: nobody has acknowledged or viewed it
NewBroadcast(b, tg, tu) ==
    /\ bcast = b
    /\ target_groups = tg
    /\ target_users = tu
    /\ acknowledged_by = {}
    /\ viewed_by = {}
    /\ view_logs = <<>>

\* a freshly created event: nobody has answered
NewEvent(e, vg, vu) ==
    /\ event = e
    /\ visible_to_groups = vg
    /\ visible_to_users = vu
    /\ rsvp_yes = {}
    /\ rsvp_no = {}
    /\ rsvp_maybe = {}
    /\ rsvp_logs = <<>>

\* Broadcast.objects.create defaults (audience 'all', unpublished) by admin
DefaultBroadcast ==
    [start_date |-> 0, end_date |-> 1, audience_type |-> "all",
     is_published |-> FALSE, is_active |-> TRUE, created_by |-> "admin"]

\* Event rows: EventDetailSerializer.validate accepts date+time > now only
EventRows ==
    [datetime : 1 .. MaxNow, is_public : BOOLEAN, is_active : {TRUE},
     created_by : {"admin", "u1"}]

\* ------------------------------------------- rsvp calls, one at a time
InitRsvp ==
    /\ now = 0
    /\ NewBroadcast(DefaultBroadcast, {}, {})
    /\ \E e \in EventRows, vg \in {{}, {"g1"}}, vu \in {{}, {"u2"}} : NewEvent(e, vg, vu)
    /\ InitGroups
    /\ InitRequests

NextRsvp ==
    \/ Tick
    \/ \E u \in Users, s \in RSVP_STATUS \cup {"later"} : rsvp(u, s)

SpecRsvp == InitRsvp /\ [][NextRsvp]_vars

\* C1: after any sequence of completed rsvp calls every user is in at most
\* one of rsvp_yes, rsvp_no, rsvp_maybe.
InSets(u) ==
    (IF u \in rsvp_yes THEN 1 ELSE 0) + (IF u \in rsvp_no THEN 1 ELSE 0)
        + (IF u \in rsvp_maybe THEN 1 ELSE 0)

C1_AtMostOneRsvpSet == \A u \in Users : InSets(u) <= 1

\* a user who answered yes and later changed the answer to maybe
C1_Witness ==
    \E u \in Users :
        /\ u \in rsvp_maybe
        /\ \E i \in 1 .. Len(rsvp_logs) :
              rsvp_logs[i].user = u /\ rsvp_logs[i].new_status = "yes"

\* C3: each successful rsvp call appends exactly one log row,
\* (status before the call or null -> requested status).
C3_OneRowPerRsvp ==
    [][\A u \in Users, s \in RSVP_STATUS :
          (rsvp(u, s) /\ resp'.code = 200) =>
              rsvp_logs' = Append(rsvp_logs,
                  RsvpViewRow(u, get_user_rsvp_status(rsvp_yes, rsvp_no, rsvp_maybe, u), s))]_vars

\* the EventRSVPLog rows of one user, in insertion order
RsvpRowsOf(u) == SelectSeq(rsvp_logs, LAMBDA r : r.user = u)

\* C29: the RSVP log rows of each user form a chain: the first has
\* old_status null, every later one has the new_status of the row before it
\* as its old_status, and between calls the user's current status is the
\* new_status of the last row.
C29_RsvpLogChain ==
    \A u \in Users :
        LET rows == RsvpRowsOf(u)
        IN /\ rows # <<>> => rows[1].old_status = None
           /\ \A i \in 2 .. Len(rows) : rows[i].old_status = rows[i - 1].new_status
           /\ get_user_rsvp_status(rsvp_yes, rsvp_no, rsvp_maybe, u)
                 = IF rows = <<>> THEN None ELSE rows[Len(rows)].new_status

\* rsvp calls on a private event before and after its start: the creator u1
\* and the listed user may view it, staff is not listed
InitRsvpGate ==
    /\ now = 0
    /\ NewBroadcast(DefaultBroadcast, {}, {})
    /\ \E d \in 1 .. MaxNow, vu \in {{}, {"u2"}} :
          NewEvent([datetime |-> d, is_public |-> FALSE, is_active |-> TRUE,
                    created_by |-> "u1"], {}, vu)
    /\ GroupsWith({{}}, {{}})
    /\ InitRequests

NextRsvpGate ==
    \/ Tick
    \/ \E u \in Users, s \in {"yes", "no", "later"} : rsvp(u, s)

SpecRsvpGate == InitRsvpGate /\ [][NextRsvpGate]_vars

\* C12 as stated: an rsvp call on an event that is not strictly in the future,
\* or by a user who cannot view it, is answered 403 and changes neither the
\* RSVP sets nor the RSVP log.
C12_RejectedAsForbidden ==
    [][\A u \in Users, s \in RSVP_STATUS \cup {"later"} :
          (rsvp(u, s) /\ (~is_upcoming \/ ~user_can_view(u))) =>
              /\ resp'.code = 403
              /\ UNCHANGED <<rsvp_yes, rsvp_no, rsvp_maybe, rsvp_logs>>]_vars

\* C12: an rsvp call on an event that is not strictly in the future, or by a
\* user who cannot view it, is refused (404 when the event is not in the
\* caller's queryset, 403 otherwise) and changes neither the RSVP sets nor the
\* RSVP log; once the event has started no RSVP set changes any more.
C12_RsvpRejectedNoChange ==
    [][/\ \A u \in Users, s \in RSVP_STATUS \cup {"later"} :
             (rsvp(u, s) /\ (~is_upcoming \/ ~user_can_view(u))) =>
                 /\ resp'.code = IF EventQueryset(u) THEN 403 ELSE 404
                 /\ UNCHANGED <<rsvp_yes, rsvp_no, rsvp_maybe, rsvp_logs>>
       /\ ~is_upcoming => UNCHANGED <<rsvp_yes, rsvp_no, rsvp_maybe>>]_vars

\* a user who answered before the start is refused once the event has started
C12_Witness ==
    /\ ~is_upcoming
    /\ resp.op = "rsvp"
    /\ resp.code = 403
    /\ user_can_view(resp.user)
    /\ InSets(resp.user) = 1

\* ------------------------------ rsvp calls in flight at the same time
\* EventViewSet.rsvp statement by statement; every ORM call commits on its
\* own (no transaction.atomic, no select_for_update in the handler).
rsvp_begin(p, u, s) ==
    /\ pc[p] = "idle"
    /\ Len(rsvp_logs) < MaxLogs
    /\ IF RsvpCode(u, s) = 200
       THEN /\ pc' = [pc EXCEPT ![p] = "read"]
            /\ req' = [req EXCEPT ![p] = [user |-> u, op |-> "rsvp", arg |-> s, local |-> None]]
            /\ UNCHANGED resp
       ELSE /\ resp' = Response("rsvp", u, RsvpCode(u, s))
            /\ UNCHANGED pvars
    /\ UNCHANGED <<now, stored, bvars, evars, gvars>>

\* old_status = event.get_user_rsvp_status(request.user)
rsvp_read(p) ==
    /\ pc[p] = "read"
    /\ req' = [req EXCEPT ![p].local =
                  get_user_rsvp_status(rsvp_yes, rsvp_no, rsvp_maybe, req[p].user)]
    /\ pc' = [pc EXCEPT ![p] = "rm_yes"]
    /\ UNCHANGED <<now, stored, bvars, evars, gvars, resp>>

\* event.rsvp_yes.remove(user); event.rsvp_no.remove(user); event.rsvp_maybe.remove(user)
rsvp_remove(p) ==
    /\ pc[p] \in {"rm_yes", "rm_no", "rm_maybe"}
    /\ rsvp_yes' = IF pc[p] = "rm_yes" THEN M2MRemove(rsvp_yes, req[p].user) ELSE rsvp_yes
    /\ rsvp_no' = IF pc[p] = "rm_no" THEN M2MRemove(rsvp_no, req[p].user) ELSE rsvp_no
    /\ rsvp_maybe' = IF pc[p] = "rm_maybe" THEN M2MRemove(rsvp_maybe, req[p].user) ELSE rsvp_maybe
    /\ pc' = [pc EXCEPT ![p] = IF pc[p] = "rm_yes" THEN "rm_no"
                                ELSE IF pc[p] = "rm_no" THEN "rm_maybe" ELSE "add"]
    /\ UNCHANGED <<now, stored, bvars, event, visible_to_groups, visible_to_users, rsvp_logs,
                   gvars, req, resp>>

\* event.rsvp_<new_status>.add(user), with the m2m_changed receiver it triggers
rsvp_add(p) ==
    /\ pc[p] = "add"
    /\ LET u == req[p].user
           s == req[p].arg
           target == IF s = "yes" THEN rsvp_yes ELSE IF s = "no" THEN rsvp_no ELSE rsvp_maybe
       IN /\ rsvp_yes' = IF s = "yes" THEN M2MAdd(rsvp_yes, u) ELSE rsvp_yes
          /\ rsvp_no' = IF s = "no" THEN M2MAdd(rsvp_no, u) ELSE rsvp_no
          /\ rsvp_maybe' = IF s = "maybe" THEN M2MAdd(rsvp_maybe, u) ELSE rsvp_maybe
          /\ rsvp_logs' = rsvp_logs \o RsvpSignalRows(target, u, s)
    /\ pc' = [pc EXCEPT ![p] = "log"]
    /\ UNCHANGED <<now, stored, bvars, event, visible_to_groups, visible_to_users, gvars, req, resp>>

\* EventRSVPLog.objects.create(...) and the 200 response
rsvp_log(p) ==
    /\ pc[p] = "log"
    /\ rsvp_logs' = Append(rsvp_logs, RsvpViewRow(req[p].user, req[p].local, req[p].arg))
    /\ resp' = Response("rsvp", req[p].user, 200)
    /\ pc' = [pc EXCEPT ![p] = "done"]
    /\ UNCHANGED <<now, stored, bvars, event, visible_to_groups, visible_to_users, rsvp_yes, rsvp_no,
                   rsvp_maybe, gvars, req>>

InitRsvpRace ==
    /\ now = 0
    /\ NewBroadcast(DefaultBroadcast, {}, {})
    /\ \E e \in EventRows : NewEvent(e, {}, {"u2"})
    /\ InitGroups
    /\ InitRequests

NextRsvpRace ==
    \/ Tick
    \/ \E p \in Procs, u \in Users, s \in RSVP_STATUS : rsvp_begin(p, u, s)
    \/ \E p \in Procs : rsvp_read(p)
    \/ \E p \in Procs : rsvp_remove(p)
    \/ \E p \in Procs : rsvp_add(p)
    \/ \E p \in Procs : rsvp_log(p)

SpecRsvpRace == InitRsvpRace /\ [][NextRsvpRace]_vars

\* C2: once two interleaved rsvp calls of one user have both completed, the
\* user is in exactly one RSVP set.
C2_RaceExactlyOneSet ==
    \A p, q \in Procs :
        (p # q /\ pc[p] = "done" /\ pc[q] = "done" /\ req[p].user = req[q].user)
            => InSets(req[p].user) = 1

\* ------------------------- acknowledge and mark_viewed, one at a time
\* Broadcast rows: BroadcastDetailSerializer.validate accepts start < end only
BroadcastRows ==
    {b \in [start_date : 0 .. MaxNow, end_date : 0 .. MaxNow, audience_type : AUDIENCE_CHOICES,
            is_published : BOOLEAN, is_active : {TRUE}, created_by : {"admin", "u1"}] :
        b.start_date < b.end_date}

DefaultEvent ==
    [datetime |-> 1, is_public |-> FALSE, is_active |-> TRUE, created_by |-> "admin"]

\* the addresses requests come from
ClientIps == {"10.0.0.1", "10.0.0.2"}

InitEngage ==
    /\ now = 0
    /\ \E b \in BroadcastRows : b.start_date = 0 /\ NewBroadcast(b, {"g1"}, {"u2"})
    /\ NewEvent(DefaultEvent, {}, {})
    /\ InitGroups
    /\ InitRequests

NextEngage ==
    \/ Tick
    \/ \E u \in Users, data \in AckPayloads : acknowledge(u, data)
    \/ \E u \in Users, ip \in ClientIps : mark_viewed(u, ip)

SpecEngage == InitEngage /\ [][NextEngage]_vars

ViewRowsOf(rows, u) == {i \in 1 .. Len(rows) : rows[i].user = u}

\* C4: mark_viewed is idempotent: a call that is served leaves the user in
\* viewed_by with exactly one view-log row of the pair, and a call by a user
\* already in viewed_by changes neither viewed_by nor the view log.
C4_MarkViewedIdempotent ==
    [][\A u \in Users, ip \in ClientIps :
          (mark_viewed(u, ip) /\ resp'.code = 200) =>
              /\ u \in viewed_by'
              /\ Cardinality(ViewRowsOf(view_logs', u)) = 1
              /\ u \in viewed_by => UNCHANGED <<viewed_by, view_logs>>]_vars

\* a second served call of a user who had already viewed, from another address
C4_Witness ==
    /\ resp.op = "mark_viewed"
    /\ resp.code = 200
    /\ resp.user \in viewed_by
    /\ \E i \in 1 .. Len(view_logs) :
          /\ view_logs[i].user = resp.user
          /\ view_logs[i].viewed_at < now

\* C6: a served acknowledge leaves the user in acknowledged_by iff want, a
\* repeat with the same want changes nothing, and no acknowledge call touches
\* viewed_by, the view log or the RSVP log.
C6_AcknowledgeIdempotentNoLog ==
    [][\A u \in Users, data \in AckPayloads :
          acknowledge(u, data) =>
              /\ UNCHANGED <<viewed_by, view_logs, rsvp_logs>>
              /\ resp'.code = 200 =>
                    /\ (u \in acknowledged_by') = (data = "true")
                    /\ (u \in acknowledged_by) = (data = "true") => UNCHANGED acknowledged_by
              /\ resp'.code # 200 => UNCHANGED acknowledged_by]_vars

\* somebody withdrew an acknowledgment while a view is on record
C6_Witness ==
    /\ resp.op = "acknowledge"
    /\ resp.code = 200
    /\ resp.user \notin acknowledged_by
    /\ acknowledged_by # {}
    /\ view_logs # <<>>

C25_HalfOpenWindow ==
    (bcast.is_published /\ bcast.is_active) =>
        /\ now = bcast.end_date =>
              /\ ~is_visible
              /\ ~filter_is_active(TRUE)
              /\ \A u \in Users : ~is_staff(u) => RetrieveBroadcastCode(u) # 200
              /\ \A u \in Users : AcknowledgeCode(u, "true") # 200
        /\ now = bcast.start_date => is_visible

\* C28: a mark_viewed call of a non-staff, non-creator user in the audience
\* of a live broadcast is accepted and puts the user in viewed_by; the users
\* able to mark a live broadcast viewed are those able to acknowledge it.
C28_AudienceCanMarkViewed ==
    [][\A u \in Users :
          /\ (/\ \E ip \in ClientIps : mark_viewed(u, ip)
              /\ ~is_staff(u)
              /\ u # bcast.created_by
              /\ can_view_broadcast(u)) =>
                    /\ resp'.code = 200
                    /\ u \in viewed_by'
          /\ is_visible => ((MarkViewedCode(u) = 200) <=> (AcknowledgeCode(u, "true") = 200))]_vars

\* --------------------------- mark_viewed calls in flight at the same time
\* BroadcastViewSet.mark_viewed statement by statement
mv_begin(p, u, ip) ==
    /\ pc[p] = "idle"
    /\ IF MarkViewedCode(u) = 200
       THEN /\ pc' = [pc EXCEPT ![p] = "check"]
            /\ req' = [req EXCEPT ![p] = [user |-> u, op |-> "mark_viewed", arg |-> ip,
                                          local |-> None]]
            /\ UNCHANGED resp
       ELSE /\ resp' = Response("mark_viewed", u, MarkViewedCode(u))
            /\ UNCHANGED pvars
    /\ UNCHANGED <<now, stored, bvars, evars, gvars>>

\* if not broadcast.viewed_by.filter(id=request.user.id).exists()
mv_check(p) ==
    /\ pc[p] = "check"
    /\ IF req[p].user \in viewed_by
       THEN /\ pc' = [pc EXCEPT ![p] = "done"]
            /\ resp' = Response("mark_viewed", req[p].user, 200)
       ELSE /\ pc' = [pc EXCEPT ![p] = "add"]
            /\ UNCHANGED resp
    /\ UNCHANGED <<now, stored, bvars, evars, gvars, req>>

\* broadcast.viewed_by.add(request.user)
mv_add(p) ==
    /\ pc[p] = "add"
    /\ viewed_by' = M2MAdd(viewed_by, req[p].user)
    /\ pc' = [pc EXCEPT ![p] = "goc_get"]
    /\ UNCHANGED <<now, stored, bcast, target_groups, target_users, acknowledged_by, view_logs,
                   evars, gvars, req, resp>>

\* get_or_create: the SELECT
mv_goc_get(p) ==
    /\ pc[p] = "goc_get"
    /\ IF HasViewRow(view_logs, req[p].user)
       THEN /\ pc' = [pc EXCEPT ![p] = "done"]
            /\ req' = [req EXCEPT ![p].local = "found"]
            /\ resp' = Response("mark_viewed", req[p].user, 200)
       ELSE /\ pc' = [pc EXCEPT ![p] = "goc_create"]
            /\ UNCHANGED <<req, resp>>
    /\ UNCHANGED <<now, stored, bvars, evars, gvars>>

\* get_or_create: the INSERT; on IntegrityError it selects the existing row
mv_goc_create(p) ==
    /\ pc[p] = "goc_create"
    /\ view_logs' = UniqueInsert(view_logs, ViewRow(req[p].user, req[p].arg))
    /\ req' = [req EXCEPT ![p].local =
                  IF HasViewRow(view_logs, req[p].user) THEN "IntegrityError" ELSE "created"]
    /\ resp' = Response("mark_viewed", req[p].user, 200)
    /\ pc' = [pc EXCEPT ![p] = "done"]
    /\ UNCHANGED <<now, stored, bcast, target_groups, target_users, acknowledged_by, viewed_by,
                   evars, gvars>>

InitViewRace ==
    /\ now = 0
    /\ \E b \in BroadcastRows : b.start_date = 0 /\ NewBroadcast(b, {"g1"}, {"u2"})
    /\ NewEvent(DefaultEvent, {}, {})
    /\ InitGroups
    /\ InitRequests

NextViewRace ==
    \/ Tick
    \/ \E p \in Procs, u \in Users, ip \in ClientIps : mv_begin(p, u, ip)
    \/ \E p \in Procs : mv_check(p)
    \/ \E p \in Procs : mv_add(p)
    \/ \E p \in Procs : mv_goc_get(p)
    \/ \E p \in Procs : mv_goc_create(p)

SpecViewRace == InitViewRace /\ [][NextViewRace]_vars

\* C5: in every reachable state, interleaved mark_viewed calls included,
\* there is at most one BroadcastView row per (broadcast, user) pair.
C5_AtMostOneViewRow == \A u \in Users : Cardinality(ViewRowsOf(view_logs, u)) <= 1

\* two calls of one user both got past the membership check and the SELECT;
\* one inserted the row, the other hit the unique constraint
C5_Witness ==
    \E p, q \in Procs :
        /\ pc[p] = "done" /\ pc[q] = "done"
        /\ req[p].user = req[q].user
        /\ req[p].local = "created"
        /\ req[q].local = "IntegrityError"

\* C30: whenever no mark_viewed call is in progress, a user is in viewed_by
\* iff the view log has a row of the user, and total_views (the size of
\* viewed_by) is the number of view-log rows.
C30_ViewedIffLogged ==
    (\A p \in Procs : pc[p] \in {"idle", "done"}) =>
        /\ \A u \in Users : u \in viewed_by <=> HasViewRow(view_logs, u)
        /\ Cardinality(viewed_by) = Len(view_logs)

\* two calls of one user overlapped: both passed the membership check, one
\* inserted the row and the other's SELECT found it; both have answered
C30_Witness ==
    \E p, q \in Procs :
        /\ pc[p] = "done" /\ pc[q] = "done"
        /\ req[p].user = req[q].user
        /\ req[p].local = "created"
        /\ req[q].local = "found"
        /\ viewed_by = {req[p].user}
        /\ Len(view_logs) = 1

\* ------------------------------------------------ who sees what
\* target lists as BroadcastDetailSerializer.validate / create leave them:
\* groups are required for audience 'groups', users for audience 'users'
TargetGroupChoices(b) ==
    IF b.audience_type = "groups" THEN SUBSET Groups \ {{}} ELSE {{}}

TargetUserChoices(b) ==
    IF b.audience_type = "users" THEN {{"u2"}} ELSE {{}}

BroadcastRowsAll ==
    {b \in [start_date : 0 .. MaxNow, end_date : 0 .. MaxNow, audience_type : AUDIENCE_CHOICES,
            is_published : BOOLEAN, is_active : BOOLEAN, created_by : {"admin", "u1"}] :
        b.start_date < b.end_date}

EventRowsAll ==
    [datetime : 1 .. MaxNow, is_public : BOOLEAN, is_active : BOOLEAN,
     created_by : {"admin", "u1"}]

\* broadcasts under changing group membership
InitVisibility ==
    /\ now = 0
    /\ \E b \in BroadcastRows :
          \E tg \in TargetGroupChoices(b), tu \in TargetUserChoices(b) : NewBroadcast(b, tg, tu)
    /\ NewEvent(DefaultEvent, {}, {})
    /\ GroupsWith({{"u1"}, {"u2"}}, {{}, {"u2"}})
    /\ InitRequests

NextVisibility ==
    \/ Tick
    \/ \E g \in Groups, u \in Users : join(g, u)
    \/ \E g \in Groups, u \in Users : leave(g, u)
    \/ \E u \in Users : retrieve_broadcast(u)
    \/ \E u \in Users : list_broadcasts(u)

SpecVisibility == InitVisibility /\ [][NextVisibility]_vars

\* broadcasts and events as a staff user and the others read them
InitStaffView ==
    /\ now = 0
    /\ \/ /\ \E b \in BroadcastRowsAll :
                \E tg \in TargetGroupChoices(b), tu \in TargetUserChoices(b) :
                    NewBroadcast(b, tg, tu)
          /\ NewEvent(DefaultEvent, {}, {})
       \/ /\ NewBroadcast(DefaultBroadcast, {}, {})
          /\ \E e \in EventRowsAll, vg \in SUBSET Groups, vu \in {{}, {"u2"}} :
                NewEvent(e, vg, vu)
    /\ GroupsWith({{"u1"}}, {{"u2"}})
    /\ InitRequests

NextStaffView ==
    \/ Tick
    \/ \E u \in Users : retrieve_broadcast(u)
    \/ \E u \in Users : list_broadcasts(u)
    \/ \E u \in Users : retrieve_event(u)
    \/ \E u \in Users : list_events(u)

SpecStaffView == InitStaffView /\ [][NextStaffView]_vars

\* C7: a staff user can list and retrieve every broadcast and every event,
\* whatever its liveness, targeting, public flag and visibility lists.
C7_StaffSeesEverything ==
    [][\A u \in Users :
          is_staff(u) =>
              /\ (bcast.is_active /\ list_broadcasts(u)) => resp'.body = {"broadcast"}
              /\ (bcast.is_active /\ retrieve_broadcast(u)) => resp'.code = 200
              /\ (event.is_active /\ list_events(u)) => resp'.body = {"event"}
              /\ (event.is_active /\ retrieve_event(u)) => resp'.code = 200]_vars

\* C8: a broadcast that is not live is neither listed for nor retrievable by
\* a user who is neither staff nor its creator; a live published broadcast
\* with audience 'all' is listed for and retrievable by every user.
C8_NotLiveHiddenLiveAllShown ==
    [][\A u \in Users :
          /\ (~is_staff(u) /\ u # bcast.created_by /\ ~is_visible) =>
                /\ list_broadcasts(u) => resp'.body = {}
                /\ retrieve_broadcast(u) => resp'.code # 200
          /\ (is_visible /\ bcast.audience_type = "all") =>
                /\ list_broadcasts(u) => resp'.body = {"broadcast"}
                /\ retrieve_broadcast(u) => resp'.code = 200]_vars

\* C9: the creator of a broadcast can retrieve it in every state.
C9_CreatorCanRetrieve ==
    [][(bcast.is_active /\ retrieve_broadcast(bcast.created_by)) => resp'.code = 200]_vars

\* C10: for a live, published broadcast with audience 'groups', a user who is
\* neither staff nor the creator is shown it (list and retrieve) iff the user
\* is a member of one of its target groups, whatever joins and leaves came before.
C10_GroupAudienceIffMember ==
    \A u \in Users :
        (~is_staff(u) /\ u # bcast.created_by /\ is_visible /\ bcast.audience_type = "groups") =>
            LET member == \E g \in Groups : g \in target_groups /\ u \in members[g]
            IN /\ BroadcastQueryset(u) <=> member
               /\ (RetrieveBroadcastCode(u) = 200) <=> member

\* a member of a target group has just left it and is refused the live
\* broadcast, while another user still in a target group is served
C10_Witness ==
    /\ is_visible
    /\ bcast.audience_type = "groups"
    /\ resp.op = "leave"
    /\ resp.code = 200
    /\ ~is_staff(resp.user)
    /\ resp.user # bcast.created_by
    /\ RetrieveBroadcastCode(resp.user) = 404
    /\ \E v \in Users \ {resp.user} :
          ~is_staff(v) /\ v # bcast.created_by /\ RetrieveBroadcastCode(v) = 200

\* C27: a join call on a private group is answered 400 and leaves its members
\* unchanged, a join call on a public group adds the caller to its members,
\* and neither join nor leave changes any group's owners.
C27_JoinPublicOnly ==
    [][\A g \in Groups, u \in Users :
          /\ (join(g, u) /\ group_type[g] = "private") =>
                /\ resp'.code = 400
                /\ members' = members
          /\ (join(g, u) /\ group_type[g] = "public") => u \in members'[g]
          /\ (join(g, u) \/ leave(g, u)) => owners' = owners]_vars

\* ------------------------------------------------ who sees which event
\* events under changing group membership; the date plays no part in the
\* visibility rules
InitEventView ==
    /\ now = 0
    /\ NewBroadcast(DefaultBroadcast, {}, {})
    /\ \E e \in EventRowsAll, vg \in SUBSET Groups, vu \in {{}, {"u2"}} :
          e.datetime = 1 /\ NewEvent(e, vg, vu)
    /\ GroupsWith({{"u1"}, {"u2"}}, {{}, {"u2"}})
    /\ InitRequests

NextEventView ==
    \/ \E g \in Groups, u \in Users : join(g, u)
    \/ \E g \in Groups, u \in Users : leave(g, u)
    \/ \E u \in Users : retrieve_event(u)
    \/ \E u \in Users : list_events(u)

SpecEventView == InitEventView /\ [][NextEventView]_vars

\* C11: for every non-staff user and every event, user_can_view is true iff
\* the event is public, or the user created it, or is in visible_to_users, or
\* is a member of a group in visible_to_groups; the list filter of an active
\* event is that same predicate, and retrieve serves exactly those users.
C11_EventVisibleIff ==
    \A u \in Users :
        ~is_staff(u) =>
            LET visible == \/ event.is_public
                           \/ event.created_by = u
                           \/ u \in visible_to_users
                           \/ \E g \in Groups : g \in visible_to_groups /\ u \in members[g]
            IN /\ user_can_view(u) <=> visible
               /\ event.is_active =>
                     /\ EventQueryset(u) <=> visible
                     /\ EventQueryset(u) <=> user_can_view(u)
                     /\ (RetrieveEventCode(u) = 200) <=> visible

\* the creator, who is in no list, has just left the only visible group and
\* is still served the private event, while a user who is neither listed nor
\* a member is not
C11_Witness ==
    /\ event.is_active
    /\ ~event.is_public
    /\ resp.op = "leave"
    /\ resp.code = 200
    /\ resp.user = event.created_by
    /\ ~is_staff(resp.user)
    /\ visible_to_groups # {}
    /\ ~InVisibleGroup(resp.user)
    /\ resp.user \notin visible_to_users
    /\ RetrieveEventCode(resp.user) = 200
    /\ \E v \in Users \ {resp.user} : ~is_staff(v) /\ RetrieveEventCode(v) = 404

\* ------------------------------------------- recipients and rates
\* auth_user rows: the requesters are active; "u3" has is_active = False, so
\* it never authenticates but can be a group member or a targeted user
InactiveUsers == {"u3"}
AuthUsers == Users \cup InactiveUsers
user_is_active(u) == u \notin InactiveUsers

\* a count over the join rows, without .distinct()
total_recipients_NoDistinct ==
    IF bcast.audience_type = "all"
    THEN Cardinality({u \in AuthUsers : user_is_active(u)})
    ELSE IF bcast.audience_type = "groups"
    THEN Cardinality({gu \in target_groups \X AuthUsers : gu[2] \in members[gu[1]]})
    ELSE Cardinality(target_users)

\* Broadcast.total_recipients
total_recipients ==
    IF bcast.audience_type = "all"
    THEN Cardinality({u \in AuthUsers : user_is_active(u)})
    ELSE IF bcast.audience_type = "groups"
    THEN Cardinality({u \in AuthUsers : \E g \in target_groups : u \in members[g]})
    ELSE Cardinality(target_users)

\* a rate that is left as a fraction of one
acknowledgment_rate_NoPercent ==
    IF total_recipients = 0 THEN [num |-> 0, den |-> 1]
    ELSE [num |-> Cardinality(acknowledged_by), den |-> total_recipients]

\* Broadcast.acknowledgment_rate; the quotient (count / total) * 100 is kept
\* exact, as the fraction num / den
acknowledgment_rate ==
    IF total_recipients = 0 THEN [num |-> 0, den |-> 1]
    ELSE [num |-> Cardinality(acknowledged_by) * 100, den |-> total_recipients]

\* ------------------------------------------- writing a broadcast
\* request bodies of POST / PUT / PATCH on broadcasts: the keys sent and
\* their values (title, description and the other fields are always valid)
Has(data, k) == k \in data.keys

\* not data.get('target_group_ids') / not data.get('target_user_ids')
NoIds(data, k) == ~Has(data, k) \/ data[k] = {}

\* a validate() that lets a broadcast end at the moment it starts
BroadcastSerializerCode_AllowsEqual(method, data) ==
    IF ~Has(data, "start_date") \/ ~Has(data, "end_date")
    THEN IF method = "PATCH" THEN 500 ELSE 400
    ELSE IF data.start_date > data.end_date THEN 400
    ELSE IF Has(data, "audience_type") /\ data.audience_type = "groups"
            /\ NoIds(data, "target_group_ids") THEN 400
    ELSE IF Has(data, "audience_type") /\ data.audience_type = "users"
            /\ NoIds(data, "target_user_ids") THEN 400
    ELSE 200

\* a validate() without the two targeting checks
BroadcastSerializerCode_NoTargetCheck(method, data) ==
    IF ~Has(data, "start_date") \/ ~Has(data, "end_date")
    THEN IF method = "PATCH" THEN 500 ELSE 400
    ELSE IF data.start_date >= data.end_date THEN 400
    ELSE 200

\* BroadcastDetailSerializer.is_valid: start_date and end_date are required
\* unless the update is partial; validate() then indexes both, which is a
\* KeyError (500) on a PATCH that leaves one out
BroadcastSerializerCode(method, data) ==
    IF ~Has(data, "start_date") \/ ~Has(data, "end_date")
    THEN IF method = "PATCH" THEN 500 ELSE 400
    ELSE IF data.start_date >= data.end_date THEN 400
    ELSE IF Has(data, "audience_type") /\ data.audience_type = "groups"
            /\ NoIds(data, "target_group_ids") THEN 400
    ELSE IF Has(data, "audience_type") /\ data.audience_type = "users"
            /\ NoIds(data, "target_user_ids") THEN 400
    ELSE 200

\* the place of a row that is not stored
NoBroadcast ==
    [start_date |-> 0, end_date |-> 0, audience_type |-> "all",
     is_published |-> FALSE, is_active |-> FALSE, created_by |-> None]

CreateBroadcastCode(data) ==
    IF BroadcastSerializerCode("POST", data) = 200 THEN 201
    ELSE BroadcastSerializerCode("POST", data)

\* POST /api/broadcasts/ (BroadcastDetailSerializer.create); any
\* authenticated user may create
create_broadcast(u, data) ==
    /\ "broadcast" \notin stored
    /\ resp' = Response("create_broadcast", u, CreateBroadcastCode(data))
    /\ IF CreateBroadcastCode(data) = 201
       THEN /\ stored' = stored \cup {"broadcast"}
            /\ bcast' = [start_date |-> data.start_date, end_date |-> data.end_date,
                         audience_type |-> IF Has(data, "audience_type")
                                           THEN data.audience_type ELSE "all",
                         is_published |-> FALSE, is_active |-> TRUE, created_by |-> u]
            /\ target_groups' = IF NoIds(data, "target_group_ids") THEN {}
                                ELSE data.target_group_ids
            /\ target_users' = IF NoIds(data, "target_user_ids") THEN {}
                               ELSE data.target_user_ids
            /\ acknowledged_by' = {}
            /\ viewed_by' = {}
            /\ view_logs' = <<>>
       ELSE UNCHANGED <<stored, bvars>>
    /\ UNCHANGED <<now, evars, gvars, pvars>>

UpdateBroadcastCode(u, method, data) ==
    LET c == StatusOf(BroadcastQueryset(u), IsBroadcastOwnerOrAdmin(method, u))
    IN IF c # 200 THEN c ELSE BroadcastSerializerCode(method, data)

\* PUT / PATCH /api/broadcasts/{id}/ (BroadcastDetailSerializer.update)
update_broadcast(u, method, data) ==
    /\ resp' = Response("update_broadcast", u, UpdateBroadcastCode(u, method, data))
    /\ IF UpdateBroadcastCode(u, method, data) = 200
       THEN /\ bcast' = [bcast EXCEPT !.start_date = data.start_date,
                                      !.end_date = data.end_date,
                                      !.audience_type = IF Has(data, "audience_type")
                                                        THEN data.audience_type ELSE @]
            /\ target_groups' = IF Has(data, "target_group_ids")
                                THEN data.target_group_ids ELSE target_groups
            /\ target_users' = IF Has(data, "target_user_ids")
                               THEN data.target_user_ids ELSE target_users
       ELSE UNCHANGED <<bcast, target_groups, target_users>>
    /\ UNCHANGED <<now, stored, acknowledged_by, viewed_by, view_logs, evars, gvars, pvars>>


\* ------------------------------ a live broadcast, its audience changing
\* PATCH bodies that carry valid dates and any of the audience keys
AudienceBodies ==
    {d \in [keys : {{"start_date", "end_date"} \cup ks :
                      ks \in SUBSET {"audience_type", "target_group_ids", "target_user_ids"}},
            start_date : {0}, end_date : {1}, audience_type : AUDIENCE_CHOICES,
            target_group_ids : {{}, Groups}, target_user_ids : {{"u2"}}] :
        /\ ~Has(d, "audience_type") => d.audience_type = "all"
        /\ ~Has(d, "target_group_ids") => d.target_group_ids = {}}

InitRecipients ==
    /\ now = 0
    /\ \E a \in AUDIENCE_CHOICES, c \in {"admin", "u1"} :
          LET b == [start_date |-> 0, end_date |-> 1, audience_type |-> a,
                    is_published |-> TRUE, is_active |-> TRUE, created_by |-> c]
          IN \E tg \in TargetGroupChoices(b) :
                NewBroadcast(b, tg, IF a = "users" THEN {"u2", "u3"} ELSE {})
    /\ NewEvent(DefaultEvent, {}, {})
    /\ GroupsWith({{"u1", "u2"}}, {{"u2", "u3"}})
    /\ InitRequests

NextRecipients ==
    \/ \E u \in Users, data \in AckPayloads : acknowledge(u, data)
    \/ \E g \in Groups, u \in Users : join(g, u)
    \/ \E g \in Groups, u \in Users : leave(g, u)
    \/ \E u \in Users, data \in AudienceBodies : update_broadcast(u, "PATCH", data)

SpecRecipients == InitRecipients /\ [][NextRecipients]_vars

C15_RateAtMostHundred ==
    /\ 0 <= acknowledgment_rate.num
    /\ acknowledgment_rate.num <= 100 * acknowledgment_rate.den

AnalyticsDays == 30

\* .date() of a timestamp: the clock ticks twice a day
date(t) == t \div 2

\* rows whose timestamp falls on the day
RowsOn(stamps, day) == Cardinality({i \in 1 .. Len(stamps) : date(stamps[i]) = day})

\* the while loop of both analytics handlers: one bucket per day from
\* current_date up to and including end_date
RECURSIVE DailySeries(_, _, _)
DailySeries(current_date, end_date, stamps) ==
    IF current_date <= end_date
    THEN << [date |-> current_date, count |-> RowsOn(stamps, current_date)] >>
             \o DailySeries(current_date + 1, end_date, stamps)
    ELSE <<>>

\* end_date = today, start_date = end_date - timedelta(days=30)
DailyWindow(stamps) ==
    DailySeries(date(now) - AnalyticsDays, date(now), stamps)

ViewedAt == [i \in 1 .. Len(view_logs) |-> view_logs[i].viewed_at]
ChangedAt == [i \in 1 .. Len(rsvp_logs) |-> rsvp_logs[i].changed_at]

\* count / total * 100 if total > 0 else 0, kept exact as num / den
RateOf(count, total) ==
    IF total > 0 THEN [num |-> count * 100, den |-> total] ELSE [num |-> 0, den |-> 1]

BroadcastAnalyticsData ==
    [total_recipients |-> total_recipients,
     total_views |-> Cardinality(viewed_by),
     total_acknowledgments |-> Cardinality(acknowledged_by),
     acknowledgment_rate |-> acknowledgment_rate,
     view_rate |-> RateOf(Cardinality(viewed_by), total_recipients),
     daily_views |-> DailyWindow(ViewedAt)]

\* GET /api/broadcasts/{id}/analytics/ (IsAdminOrReadOnly lets every
\* authenticated GET through)
broadcast_analytics(u) ==
    /\ LET c == StatusOf(BroadcastQueryset(u), TRUE)
       IN resp' = ResponseWith("broadcast_analytics", u, c,
                               IF c = 200 THEN {BroadcastAnalyticsData} ELSE {})
    /\ UNCHANGED <<now, stored, bvars, evars, gvars, pvars>>

\* a count of the directly listed users only
get_total_visible_users_NoGroups ==
    IF event.is_public THEN Cardinality({u \in AuthUsers : user_is_active(u)})
    ELSE Cardinality(visible_to_users)

\* EventViewSet.get_total_visible_users
get_total_visible_users ==
    IF event.is_public THEN Cardinality({u \in AuthUsers : user_is_active(u)})
    ELSE Cardinality(visible_to_users
                        \cup {u \in AuthUsers : \E g \in visible_to_groups : u \in members[g]})

total_rsvp == Cardinality(rsvp_yes) + Cardinality(rsvp_no) + Cardinality(rsvp_maybe)

EventAnalyticsData ==
    [total_rsvp_yes |-> Cardinality(rsvp_yes),
     total_rsvp_no |-> Cardinality(rsvp_no),
     total_rsvp_maybe |-> Cardinality(rsvp_maybe),
     total_rsvp |-> total_rsvp,
     rsvp_rate |-> RateOf(total_rsvp, get_total_visible_users),
     daily_rsvp |-> DailyWindow(ChangedAt)]

\* GET /api/events/{id}/analytics/
event_analytics(u) ==
    /\ LET c == StatusOf(EventQueryset(u), TRUE)
       IN resp' = ResponseWith("event_analytics", u, c,
                               IF c = 200 THEN {EventAnalyticsData} ELSE {})
    /\ UNCHANGED <<now, stored, bvars, evars, gvars, pvars>>

\* the record an analytics response carries
BodyOf(r) == CHOOSE x \in r.body : TRUE

\* a viewed, live broadcast and an event with answers, read over the days
InitAnalytics ==
    /\ now = 0
    /\ NewBroadcast([DefaultBroadcast EXCEPT !.is_published = TRUE, !.end_date = MaxNow],
                    {}, {})
    /\ \/ \E c \in {"admin", "u2"} : NewEvent([DefaultEvent EXCEPT !.datetime = MaxNow,
                                                                   !.created_by = c], {}, {})
       \/ NewEvent([DefaultEvent EXCEPT !.datetime = MaxNow], Groups, {"u2"})
       \/ NewEvent([DefaultEvent EXCEPT !.datetime = MaxNow, !.is_public = TRUE], {}, {})
    /\ GroupsWith({{"u1", "u2"}}, {{"u2", "u3"}})
    /\ InitRequests

NextAnalytics ==
    \/ Tick
    \/ \E u \in Users : mark_viewed(u, "10.0.0.1")
    \/ \E u \in Users : rsvp(u, "yes")
    \/ \E u \in Users : broadcast_analytics(u)
    \/ \E u \in Users : event_analytics(u)

SpecAnalytics == InitAnalytics /\ [][NextAnalytics]_vars

\* the claim's window: exactly 30 buckets, ascending day by day, the last one
\* today, each counting the rows of its day
ThirtyDaysToToday(series, stamps) ==
    /\ Len(series) = 30
    /\ \A i \in 1 .. Len(series) :
          /\ series[i].date = date(now) - 30 + i
          /\ series[i].count = RowsOn(stamps, series[i].date)

\* C17: the daily series of broadcast analytics and of event analytics has
\* exactly 30 buckets, one per calendar day in ascending order, ending with
\* today, and a bucket counts 0 when no row falls on its day.
C17_ThirtyDailyBuckets ==
    [][\A u \in Users :
          /\ (broadcast_analytics(u) /\ resp'.code = 200) =>
                ThirtyDaysToToday(BodyOf(resp').daily_views, ViewedAt)
          /\ (event_analytics(u) /\ resp'.code = 200) =>
                ThirtyDaysToToday(BodyOf(resp').daily_rsvp, ChangedAt)]_vars

\* event analytics while answers come in and members leave
NextEventAnalytics ==
    \/ \E u \in Users : rsvp(u, "yes")
    \/ \E g \in Groups, u \in Users : leave(g, u)
    \/ \E u \in Users : event_analytics(u)

SpecEventAnalytics == InitAnalytics /\ [][NextEventAnalytics]_vars

\* C18: total visible users is the number of active users for a public event
\* and otherwise the size of the union of visible_to_users and the members of
\* the visible groups; rsvp_rate is 0 when that total is 0.
C18_TotalVisibleUsers ==
    /\ event.is_public =>
          get_total_visible_users = Cardinality(AuthUsers \ InactiveUsers)
    /\ ~event.is_public =>
          get_total_visible_users
              = Cardinality(visible_to_users \cup UNION {members[g] : g \in visible_to_groups})
    /\ (resp.op = "event_analytics" /\ resp.code = 200 /\ get_total_visible_users = 0) =>
          BodyOf(resp).rsvp_rate.num = 0

\* analytics of a private event whose listed user is also in both visible
\* groups: three visible users, counted once each
C18_Witness ==
    /\ resp.op = "event_analytics"
    /\ resp.code = 200
    /\ ~event.is_public
    /\ visible_to_users \cap members["g1"] \cap members["g2"] # {}
    /\ visible_to_groups = Groups
    /\ get_total_visible_users = 3
    /\ total_rsvp > 0


\* ------------------------------------------------ deleting, creating
DestroyBroadcastCode(u) ==
    LET c == StatusOf(BroadcastQueryset(u), IsBroadcastOwnerOrAdmin("DELETE", u))
    IN IF c = 200 THEN 204 ELSE c

\* DELETE /api/broadcasts/{id}/: ModelViewSet.destroy is instance.delete();
\* the row goes, and with it its many-to-many rows and, by on_delete=CASCADE,
\* its BroadcastView rows
destroy_broadcast(u) ==
    /\ resp' = Response("destroy_broadcast", u, DestroyBroadcastCode(u))
    /\ IF DestroyBroadcastCode(u) = 204
       THEN /\ stored' = stored \ {"broadcast"}
            /\ bcast' = NoBroadcast
            /\ target_groups' = {}
            /\ target_users' = {}
            /\ acknowledged_by' = {}
            /\ viewed_by' = {}
            /\ view_logs' = <<>>
       ELSE UNCHANGED <<stored, bvars>>
    /\ UNCHANGED <<now, evars, gvars, pvars>>

NoEvent == [datetime |-> 0, is_public |-> FALSE, is_active |-> FALSE, created_by |-> None]

DestroyEventCode(u) ==
    LET c == StatusOf(EventQueryset(u), IsEventOwnerOrAdmin("DELETE", u))
    IN IF c = 200 THEN 204 ELSE c

\* DELETE /api/events/{id}/: the EventRSVPLog rows cascade with the row
destroy_event(u) ==
    /\ resp' = Response("destroy_event", u, DestroyEventCode(u))
    /\ IF DestroyEventCode(u) = 204
       THEN /\ stored' = stored \ {"event"}
            /\ event' = NoEvent
            /\ visible_to_groups' = {}
            /\ visible_to_users' = {}
            /\ rsvp_yes' = {}
            /\ rsvp_no' = {}
            /\ rsvp_maybe' = {}
            /\ rsvp_logs' = <<>>
       ELSE UNCHANGED <<stored, evars>>
    /\ UNCHANGED <<now, bvars, gvars, pvars>>

\* bodies that carry both dates, one of them or neither (audience 'all')
DateBodies ==
    {d \in [keys : SUBSET {"start_date", "end_date"}, start_date : 0 .. MaxNow,
            end_date : 0 .. MaxNow, audience_type : {"all"},
            target_group_ids : {{}}, target_user_ids : {{}}] :
        /\ ~Has(d, "start_date") => d.start_date = 0
        /\ ~Has(d, "end_date") => d.end_date = 0}

\* a viewed broadcast and an answered event, up to their deletion
InitDestroy ==
    /\ now = 0
    /\ NewBroadcast([DefaultBroadcast EXCEPT !.created_by = "u1"], {}, {})
    /\ NewEvent([DefaultEvent EXCEPT !.datetime = MaxNow, !.is_public = TRUE], {}, {})
    /\ InitGroups
    /\ InitRequests

NextDestroy ==
    \/ Tick
    \/ \E u \in Users : mark_viewed(u, "10.0.0.1")
    \/ \E u \in Users : rsvp(u, "yes")
    \/ \E u \in Users : destroy_broadcast(u)
    \/ \E u \in Users : destroy_event(u)

SpecDestroy == InitDestroy /\ [][NextDestroy]_vars

IsPrefix(s, t) == Len(s) <= Len(t) /\ \A i \in 1 .. Len(s) : t[i] = s[i]

\* C19: no operation removes or changes a BroadcastView or EventRSVPLog row:
\* over every step the old view log and the old RSVP log are kept, row for
\* row, in the new ones.
C19_LogsOnlyGrow ==
    [][IsPrefix(view_logs, view_logs') /\ IsPrefix(rsvp_logs, rsvp_logs')]_vars

\* a broadcast from creation over updates to deletion
InitLifecycle ==
    /\ now = 0
    /\ NewBroadcast([DefaultBroadcast EXCEPT !.created_by = "u1"], {}, {})
    /\ NewEvent(DefaultEvent, {}, {})
    /\ InitGroups
    /\ InitRequests

NextLifecycle ==
    \/ \E u \in Users : destroy_broadcast(u)
    \/ \E u \in Users, data \in DateBodies : create_broadcast(u, data)
    \/ \E u \in Users, m \in {"PUT", "PATCH"}, data \in DateBodies :
          update_broadcast(u, m, data)

SpecLifecycle == InitLifecycle /\ [][NextLifecycle]_vars

\* a body that carries both dates, the first not before the second
EndsBeforeStart(data) ==
    data.keys = {"start_date", "end_date"} /\ data.start_date >= data.end_date

\* C20: every stored broadcast has start_date < end_date; a create, or an
\* update by its creator or staff, whose body has start_date >= end_date is
\* answered 400, and no refused create or update changes the stored rows.
C20_StartBeforeEnd ==
    /\ []("broadcast" \in stored =>
            /\ bcast.start_date < bcast.end_date
            /\ \A u \in Users, m \in {"PUT", "PATCH"}, data \in DateBodies :
                  (EndsBeforeStart(data) /\ (is_staff(u) \/ u = bcast.created_by)) =>
                      UpdateBroadcastCode(u, m, data) = 400)
    /\ [](\A data \in DateBodies : EndsBeforeStart(data) => CreateBroadcastCode(data) = 400)
    /\ [][/\ (resp'.op = "create_broadcast" /\ resp'.code # 201) => UNCHANGED <<stored, bvars>>
          /\ (resp'.op = "update_broadcast" /\ resp'.code # 200) => UNCHANGED <<stored, bvars>>]_vars

\* a broadcast created through the API after the first one was deleted has
\* just been refused an update that would end it before it starts
C20_Witness ==
    /\ "broadcast" \in stored
    /\ bcast.created_by = "u2"
    /\ resp.op = "update_broadcast"
    /\ resp.user = "u2"
    /\ resp.code = 400
    /\ bcast.start_date < bcast.end_date


\* ------------------------------------------- creating with an audience
\* POST bodies with valid dates and any of the audience keys, the id lists
\* empty or not
TargetBodies ==
    {d \in [keys : {{"start_date", "end_date"} \cup ks :
                      ks \in SUBSET {"audience_type", "target_group_ids", "target_user_ids"}},
            start_date : {0}, end_date : {1}, audience_type : AUDIENCE_CHOICES,
            target_group_ids : {{}, {"g1"}}, target_user_ids : {{}, {"u2"}}] :
        /\ ~Has(d, "audience_type") => d.audience_type = "all"
        /\ ~Has(d, "target_group_ids") => d.target_group_ids = {}
        /\ ~Has(d, "target_user_ids") => d.target_user_ids = {}}

InitCreate ==
    /\ now = 0
    /\ NewBroadcast([DefaultBroadcast EXCEPT !.created_by = "u1"], {}, {})
    /\ NewEvent(DefaultEvent, {}, {})
    /\ InitGroups
    /\ InitRequests

NextCreate ==
    \/ \E u \in Users : destroy_broadcast(u)
    \/ \E u \in Users, data \in TargetBodies : create_broadcast(u, data)

SpecCreate == InitCreate /\ [][NextCreate]_vars

\* a body that asks for a group (user) audience and names no group (user)
LacksTargets(data) ==
    /\ Has(data, "audience_type")
    /\ \/ data.audience_type = "groups" /\ NoIds(data, "target_group_ids")
       \/ data.audience_type = "users" /\ NoIds(data, "target_user_ids")

\* C21: a create with audience 'groups' and no target group ids, or audience
\* 'users' and no target user ids, is answered 400 and stores nothing; every
\* broadcast a create stores with audience 'groups' (resp. 'users') has at
\* least one target group (resp. target user).
C21_TargetsRequired ==
    /\ [](\A data \in TargetBodies : LacksTargets(data) => CreateBroadcastCode(data) = 400)
    /\ [][/\ (resp'.op = "create_broadcast" /\ resp'.code # 201) => UNCHANGED <<stored, bvars>>
          /\ (resp'.op = "create_broadcast" /\ resp'.code = 201) =>
                /\ "broadcast" \in stored'
                /\ bcast'.audience_type = "groups" => target_groups' # {}
                /\ bcast'.audience_type = "users" => target_users' # {}]_vars

\* after the first broadcast was deleted, a create without the ids its
\* audience needs has just been refused and the table is still empty
C21_Witness ==
    /\ "broadcast" \notin stored
    /\ resp.op = "create_broadcast"
    /\ resp.code = 400


\* ------------------------------------------------- writing an event
\* request bodies of POST / PUT / PATCH on events: the key "datetime" stands
\* for the two required fields date and time, sent together

\* a validate() that accepts an event starting at this very moment
EventSerializerCode_AllowsNow(method, data) ==
    IF ~Has(data, "datetime") THEN IF method = "PATCH" THEN 500 ELSE 400
    ELSE IF data.datetime < now THEN 400
    ELSE 200

\* EventDetailSerializer.is_valid: date and time are required unless the
\* update is partial; validate() then indexes both (KeyError on a PATCH
\* without them) and refuses datetime.combine(date, time) <= timezone.now()
EventSerializerCode(method, data) ==
    IF ~Has(data, "datetime") THEN IF method = "PATCH" THEN 500 ELSE 400
    ELSE IF data.datetime <= now THEN 400
    ELSE 200

CreateEventCode(data) ==
    IF EventSerializerCode("POST", data) = 200 THEN 201
    ELSE EventSerializerCode("POST", data)

\* POST /api/events/ (EventDetailSerializer.create); any authenticated user
\* may create
create_event(u, data) ==
    /\ "event" \notin stored
    /\ resp' = Response("create_event", u, CreateEventCode(data))
    /\ IF CreateEventCode(data) = 201
       THEN /\ stored' = stored \cup {"event"}
            /\ event' = [datetime |-> data.datetime,
                         is_public |-> IF Has(data, "is_public") THEN data.is_public ELSE FALSE,
                         is_active |-> TRUE, created_by |-> u]
            /\ visible_to_groups' = IF NoIds(data, "visible_to_group_ids") THEN {}
                                    ELSE data.visible_to_group_ids
            /\ visible_to_users' = IF NoIds(data, "visible_to_user_ids") THEN {}
                                   ELSE data.visible_to_user_ids
            /\ rsvp_yes' = {}
            /\ rsvp_no' = {}
            /\ rsvp_maybe' = {}
            /\ rsvp_logs' = <<>>
       ELSE UNCHANGED <<stored, evars>>
    /\ UNCHANGED <<now, bvars, gvars, pvars>>

UpdateEventCode(u, method, data) ==
    LET c == StatusOf(EventQueryset(u), IsEventOwnerOrAdmin(method, u))
    IN IF c # 200 THEN c ELSE EventSerializerCode(method, data)

\* PUT / PATCH /api/events/{id}/ (EventDetailSerializer.update)
update_event(u, method, data) ==
    /\ resp' = Response("update_event", u, UpdateEventCode(u, method, data))
    /\ IF UpdateEventCode(u, method, data) = 200
       THEN /\ event' = [event EXCEPT !.datetime = data.datetime,
                                      !.is_public = IF Has(data, "is_public")
                                                    THEN data.is_public ELSE @]
            /\ visible_to_groups' = IF Has(data, "visible_to_group_ids")
                                    THEN data.visible_to_group_ids ELSE visible_to_groups
            /\ visible_to_users' = IF Has(data, "visible_to_user_ids")
                                   THEN data.visible_to_user_ids ELSE visible_to_users
       ELSE UNCHANGED <<event, visible_to_groups, visible_to_users>>
    /\ UNCHANGED <<now, stored, bvars, rsvp_yes, rsvp_no, rsvp_maybe, rsvp_logs, gvars, pvars>>

\* POST bodies with a date and time before, at or after any moment of the
\* clock, public or listed
EventBodies ==
    {d \in [keys : {{"datetime"} \cup ks : ks \in SUBSET {"is_public", "visible_to_user_ids"}},
            datetime : 0 .. MaxNow + 1, is_public : BOOLEAN,
            visible_to_group_ids : {{}}, visible_to_user_ids : {{}, {"u2"}}] :
        /\ ~Has(d, "is_public") => d.is_public = FALSE
        /\ ~Has(d, "visible_to_user_ids") => d.visible_to_user_ids = {}}

\* an event deleted and events created as the clock advances
InitEventCreate ==
    /\ now = 0
    /\ NewBroadcast(DefaultBroadcast, {}, {})
    /\ NewEvent([DefaultEvent EXCEPT !.created_by = "u1"], {}, {})
    /\ InitGroups
    /\ InitRequests

NextEventCreate ==
    \/ Tick
    \/ \E u \in Users : destroy_event(u)
    \/ \E u \in Users, data \in EventBodies : create_event(u, data)

SpecEventCreate == InitEventCreate /\ [][NextEventCreate]_vars

\* C22: a create whose date+time is less than or equal to the current time
\* is answered 400 and stores no event; an event a create stores lies
\* strictly in the future at that moment.
C22_CreatedInFuture ==
    /\ [](\A data \in EventBodies : data.datetime <= now => CreateEventCode(data) = 400)
    /\ [][now' = now =>
             /\ (resp'.op = "create_event" /\ resp'.code # 201) => UNCHANGED <<stored, evars>>
             /\ (resp'.op = "create_event" /\ resp'.code = 201) =>
                   /\ "event" \in stored'
                   /\ event'.datetime > now]_vars

\* time has passed, the first event was deleted, and a create (every body
\* carries its date and time) has just been refused: the table is empty
C22_Witness ==
    /\ now > 0
    /\ "event" \notin stored
    /\ resp.op = "create_event"
    /\ resp.code = 400


\* --------------------------------------------- who may change a row
\* update bodies: new dates and a new audience / a new date and visibility
BroadcastUpdateBodies ==
    {[keys |-> {"start_date", "end_date", "audience_type", "target_user_ids"},
      start_date |-> 0, end_date |-> 2, audience_type |-> "users",
      target_group_ids |-> {}, target_user_ids |-> {"u2"}]}

EventUpdateBodies ==
    {[keys |-> {"datetime", "is_public", "visible_to_user_ids"}, datetime |-> 2,
      is_public |-> TRUE, visible_to_group_ids |-> {}, visible_to_user_ids |-> {"u2"}]}

\* a live broadcast and an upcoming event, each by staff or by u1, each
\* open to everybody or to u1 only; users engage, then try to change them
InitMutate ==
    /\ now = 0
    /\ \E c \in {"admin", "u1"}, a \in {"all", "users"} :
          NewBroadcast([DefaultBroadcast EXCEPT !.is_published = TRUE, !.created_by = c,
                                                !.audience_type = a],
                       {}, IF a = "users" THEN {"u1"} ELSE {})
    /\ \E c \in {"admin", "u1"}, p \in BOOLEAN :
          NewEvent([DefaultEvent EXCEPT !.created_by = c, !.is_public = p],
                   {}, IF p THEN {} ELSE {"u1"})
    /\ GroupsWith({{}}, {{}})
    /\ InitRequests

NextMutate ==
    \/ \E u \in {"u1", "u2"} : acknowledge(u, "true")
    \/ \E u \in {"u1", "u2"} : rsvp(u, "yes")
    \/ \E u \in Users, m \in {"PUT", "PATCH"}, data \in BroadcastUpdateBodies :
          update_broadcast(u, m, data)
    \/ \E u \in Users : destroy_broadcast(u)
    \/ \E u \in Users, m \in {"PUT", "PATCH"}, data \in EventUpdateBodies :
          update_event(u, m, data)
    \/ \E u \in Users : destroy_event(u)

SpecMutate == InitMutate /\ [][NextMutate]_vars

\* C23: an update or delete request on a broadcast or an event by a user who
\* is neither staff nor its creator is refused (403 or 404) and leaves the
\* row, its target / visibility sets and its engagement sets unchanged.
C23_OnlyAuthorOrAdminMutates ==
    [][\A u \in Users :
          /\ (/\ ~is_staff(u)
              /\ u # bcast.created_by
              /\ \/ \E m \in {"PUT", "PATCH"}, data \in BroadcastUpdateBodies :
                       update_broadcast(u, m, data)
                 \/ destroy_broadcast(u)) =>
                    /\ resp'.code \in {403, 404}
                    /\ UNCHANGED <<stored, bvars>>
          /\ (/\ ~is_staff(u)
              /\ u # event.created_by
              /\ \/ \E m \in {"PUT", "PATCH"}, data \in EventUpdateBodies :
                       update_event(u, m, data)
                 \/ destroy_event(u)) =>
                    /\ resp'.code \in {403, 404}
                    /\ UNCHANGED <<stored, evars>>]_vars

\* a user who acknowledged a broadcast of somebody else has just been
\* refused an update of it
C23_Witness ==
    /\ "broadcast" \in stored
    /\ resp.op = "update_broadcast"
    /\ resp.code = 403
    /\ ~is_staff(resp.user)
    /\ resp.user # bcast.created_by
    /\ resp.user \in acknowledged_by
    /\ rsvp_yes # {}


\* ------------------------------------ refusals: not found or forbidden
\* a broadcast or an event of any kind, read and engaged with over time
InitRefusal ==
    /\ now = 0
    /\ \/ /\ \E b \in BroadcastRows : b.start_date = 0 /\ NewBroadcast(b, {"g1"}, {"u2"})
          /\ NewEvent(DefaultEvent, {}, {})
       \/ /\ NewBroadcast(DefaultBroadcast, {}, {})
          /\ \E e \in EventRows, vu \in {{}, {"u2"}} : NewEvent(e, {}, vu)
    /\ InitGroups
    /\ InitRequests

NextRefusal ==
    \/ Tick
    \/ \E u \in Users : retrieve_broadcast(u)
    \/ \E u \in Users : acknowledge(u, "true")
    \/ \E u \in Users : retrieve_event(u)
    \/ \E u \in Users : rsvp(u, "yes")

SpecRefusal == InitRefusal /\ [][NextRefusal]_vars

\* C24: a user who is neither staff nor the creator and may not view the
\* broadcast (event) is answered 404 on retrieve and acknowledge (retrieve and
\* rsvp); 403 is only ever answered to staff or the creator.
C24_NotFoundNeverForbidden ==
    [][\A u \in Users :
          /\ (/\ \/ retrieve_broadcast(u)
                 \/ acknowledge(u, "true")
              /\ ~is_staff(u)
              /\ u # bcast.created_by) =>
                    /\ ~can_view_broadcast(u) => resp'.code = 404
                    /\ resp'.code # 403
          /\ (/\ \/ retrieve_event(u)
                 \/ rsvp(u, "yes")
              /\ ~is_staff(u)
              /\ u # event.created_by) =>
                    /\ ~user_can_view(u) => resp'.code = 404
                    /\ resp'.code # 403]_vars


\* ------------------------------------------------ reading the answers
RsvpListData == [yes |-> rsvp_yes, no |-> rsvp_no, maybe |-> rsvp_maybe]

\* GET /api/events/{id}/rsvp_list/ (permission_classes = [IsAdminOrReadOnly]:
\* has_permission and has_object_permission let every authenticated GET
\* through, so only get_queryset() decides)
rsvp_list(u) ==
    /\ LET c == StatusOf(EventQueryset(u), TRUE)
       IN resp' = ResponseWith("rsvp_list", u, c, IF c = 200 THEN {RsvpListData} ELSE {})
    /\ UNCHANGED <<now, stored, bvars, evars, gvars, pvars>>

\* an upcoming event of u1, public or open to u2 only, answered and read
InitRsvpList ==
    /\ now = 0
    /\ NewBroadcast(DefaultBroadcast, {}, {})
    /\ \E p \in BOOLEAN :
          NewEvent([DefaultEvent EXCEPT !.created_by = "u1", !.is_public = p],
                   {}, IF p THEN {} ELSE {"u2"})
    /\ GroupsWith({{}}, {{}})
    /\ InitRequests

NextRsvpList ==
    \/ \E u \in Users, s \in {"yes", "no"} : rsvp(u, s)
    \/ \E u \in Users : rsvp_list(u)

SpecRsvpList == InitRsvpList /\ [][NextRsvpList]_vars

\* C26: the rsvp_list of an event is readable only by staff or the event's
\* creator: a request of any other user, even one who can view the event, is
\* denied and returns no RSVP membership.
C26_RsvpListOwnerOrStaffOnly ==
    [][\A u \in Users :
          (rsvp_list(u) /\ ~is_staff(u) /\ u # event.created_by) =>
              /\ resp'.code # 200
              /\ resp'.body = {}]_vars

====
